---------------------------- MODULE Spec2Model ----------------------------
(***************************************************************************)
(* A model of hexless (src/src/main.rs): the tile wheel and its tick, the  *)
(* four player actions, the depth-first search `solve` with its set of     *)
(* seen states, the gesture encoder `accumulate`, and the input loop of    *)
(* `main`.                                                                 *)
(*                                                                         *)
(* Rust values are written as follows.  Option<T>: None is <<>> and        *)
(* Some(x) is <<x>>.  Tile: <<"Latent", n>>, <<"Active", v>>, <<"Dead">>.  *)
(* Vec<T>: a sequence.  GameState and SeenState: records with the fields   *)
(* of the structs.  A char: a string of length one.                        *)
(***************************************************************************)
EXTENDS Integers, Sequences, FiniteSets, TLC

VARIABLES
    game,       \* the GameState the play / tick specifications act on
    board0,     \* the tiles the session started from
    nticks,     \* how many times step has run in the tick specification
    panic,      \* "" or the message of the panic that ended the program
    pc,         \* where the program is
    arg,        \* solve: the state passed to the pending call
    stack,      \* solve: one frame per active call, innermost last
    seen,       \* solve: the HashSet<SeenState>
    ret,        \* solve: the Option<GameState> the last finished call returned
    actions,    \* accumulate: the slice of actions
    pos,        \* accumulate: how many actions the iterator has yielded
    location,   \* accumulate: the running cursor (isize)
    start,      \* accumulate: the start argument
    ntiles,     \* the board length of the history accumulate is given
    printed,    \* the lines printed so far
    input,      \* main: the String read_line filled
    tiles,      \* main: the Vec<Tile> being built from input
    results     \* fold: what the calls of one node's loop return, in order

vars == <<game, board0, nticks, panic, pc, arg, stack, seen, ret,
          actions, pos, location, start, ntiles, printed, input, tiles,
          results>>

playVars == <<game, board0, nticks, panic>>
solveVars == <<pc, arg, stack, seen, ret>>
encVars == <<actions, pos, location, start, ntiles, printed>>
mainVars == <<input, tiles>>
foldVars == <<results>>

-----------------------------------------------------------------------------
(* Bounds of the model.                                                    *)

\* the largest countdown digit of a board the model starts from
MaxCountdown == 1
\* the longest action history the play specification builds
MaxHistory == 6
\* the longest action history handed to the encoder
MaxActions == 5
\* the longest input line (region characters, without the terminator)
MaxLine == 3
\* the most results one node of the search is given to fold
MaxResults == 3

\* board lengths of the search specification
SolveLens == {0, 1, 2, 3}
\* board lengths of the play and tick specifications
PlayLens == {1, 2, 3}
\* board lengths of the encoder specification
EncLens == {1, 3, 6, 7}

-----------------------------------------------------------------------------
(* Option<T>                                                               *)

None == <<>>
Some(x) == <<x>>
is_none(o) == o = None
is_some(o) == o # None
unwrap(o) == o[1]

(* Tile *)
Latent(n) == <<"Latent", n>>
Active(v) == <<"Active", v>>
Dead == <<"Dead">>

IsLatent(t) == t[1] = "Latent"
IsActive(t) == t[1] = "Active"
IsDead(t) == t[1] = "Dead"

(* Action *)
Advance == "Advance"
CounterClockwise == "CounterClockwise"
Clockwise == "Clockwise"
Collect == "Collect"
Action == {Advance, CounterClockwise, Clockwise, Collect}

\* threshold: 6 in GameState::new
Threshold == 6

Max(S) == CHOOSE x \in S : \A y \in S : y <= x

\* all sequences over S of length n, and of length at most n
RECURSIVE SeqsOfLen(_, _)
SeqsOfLen(S, n) ==
    IF n = 0 THEN {<<>>}
    ELSE {Append(s, x) : s \in SeqsOfLen(S, n - 1), x \in S}
SeqsUpTo(S, n) == UNION {SeqsOfLen(S, k) : k \in 0..n}

-----------------------------------------------------------------------------
(* GameState                                                               *)

new(ts) ==
    [tiles |-> ts,
     location |-> None,
     start_location |-> None,
     action_queue |-> <<>>,
     location_queue |-> <<>>,
     threshold |-> Threshold,
     reward |-> 0]

\* a tick that wakes a tile at strength 0
stepTileFromZero(t, threshold) ==
    IF IsLatent(t) THEN (IF t[2] = 0 THEN Active(0) ELSE Latent(t[2] - 1))
    ELSE IF IsActive(t) THEN (IF t[2] < threshold THEN Active(t[2] + 1) ELSE Dead)
    ELSE t

\* a tick that lets an Active tile grow one strength past the threshold
stepTileLate(t, threshold) ==
    IF IsLatent(t) THEN (IF t[2] = 0 THEN Active(1) ELSE Latent(t[2] - 1))
    ELSE IF IsActive(t) THEN (IF t[2] <= threshold THEN Active(t[2] + 1) ELSE Dead)
    ELSE t

\* the closure of step, applied to one tile
stepTile(t, threshold) ==
    IF IsLatent(t) THEN (IF t[2] = 0 THEN Active(1) ELSE Latent(t[2] - 1))
    ELSE IF IsActive(t) THEN (IF t[2] < threshold THEN Active(t[2] + 1) ELSE Dead)
    ELSE t

step(s) ==
    [s EXCEPT !.tiles = [i \in 1..Len(s.tiles) |-> stepTile(s.tiles[i], s.threshold)]]

\* a Collect that adds the strength, not its square
collectRewardLinear(s) ==
    LET selected == s.tiles[unwrap(s.location) + 1]
    IN  IF IsActive(selected) THEN s.reward + selected[2] ELSE s.reward

\* a Collect that takes the square off the reward
collectRewardLoses(s) ==
    LET selected == s.tiles[unwrap(s.location) + 1]
    IN  IF IsActive(selected) THEN s.reward - selected[2] * selected[2] ELSE s.reward

\* the reward after Collect.  Rust indexes from 0: tiles[k] of the code is
\* s.tiles[k + 1] here
collectReward(s) ==
    LET selected == s.tiles[unwrap(s.location) + 1]
    IN  IF IsActive(selected) THEN s.reward + selected[2] * selected[2] ELSE s.reward

\* the message execute panics with, or "" when it runs to its end
executePanic(s, action) ==
    IF is_some(s.location) \/ action = Advance THEN ""
    ELSE IF action = Collect THEN "Swipe without location"
    ELSE "Move without location"

\* a match whose Collect arm ticks the board as the other arms do
executeMatchCollectTicks(s, action) ==
    IF action = Collect THEN
        step([s EXCEPT !.reward = collectReward(s),
                       !.tiles[unwrap(s.location) + 1] = Dead])
    ELSE IF action = Advance THEN step(s)
    ELSE IF action = CounterClockwise THEN
        step([s EXCEPT !.location =
                 Some((unwrap(s.location) + Len(s.tiles) - 1) % Len(s.tiles))])
    ELSE
        step([s EXCEPT !.location = Some((unwrap(s.location) + 1) % Len(s.tiles))])

\* a match with the two directions exchanged
executeMatchBackwards(s, action) ==
    IF action = Collect THEN
        [s EXCEPT !.reward = collectReward(s),
                  !.tiles[unwrap(s.location) + 1] = Dead]
    ELSE IF action = Advance THEN step(s)
    ELSE IF action = Clockwise THEN
        step([s EXCEPT !.location =
                 Some((unwrap(s.location) + Len(s.tiles) - 1) % Len(s.tiles))])
    ELSE
        step([s EXCEPT !.location = Some((unwrap(s.location) + 1) % Len(s.tiles))])

\* a match whose Clockwise arm leaves out the "% len"
executeMatchNoWrap(s, action) ==
    IF action = Collect THEN
        [s EXCEPT !.reward = collectReward(s),
                  !.tiles[unwrap(s.location) + 1] = Dead]
    ELSE IF action = Advance THEN step(s)
    ELSE IF action = CounterClockwise THEN
        step([s EXCEPT !.location =
                 Some((unwrap(s.location) + Len(s.tiles) - 1) % Len(s.tiles))])
    ELSE
        step([s EXCEPT !.location = Some(unwrap(s.location) + 1)])

\* the match of execute, before the two pushes
executeMatch(s, action) ==
    IF action = Collect THEN
        [s EXCEPT !.reward = collectReward(s),
                  !.tiles[unwrap(s.location) + 1] = Dead]
    ELSE IF action = Advance THEN step(s)
    ELSE IF action = CounterClockwise THEN
        step([s EXCEPT !.location =
                 Some((unwrap(s.location) + Len(s.tiles) - 1) % Len(s.tiles))])
    ELSE
        step([s EXCEPT !.location = Some((unwrap(s.location) + 1) % Len(s.tiles))])

execute(s, action) ==
    LET m == executeMatch(s, action)
    IN  [m EXCEPT !.action_queue = Append(m.action_queue, action),
                  !.location_queue = Append(m.location_queue, m.location)]

all_dead(ts) == \A i \in 1..Len(ts) : IsDead(ts[i])

-----------------------------------------------------------------------------
(* The boards main can build: every tile Latent(digit) or Dead.            *)

ParsedTiles == {Dead} \cup {Latent(c) : c \in 0..MaxCountdown}
Boards(lens) == UNION {SeqsOfLen(ParsedTiles, n) : n \in lens}

\* the largest countdown of the Latent tiles of a board (0 when it has none)
MaxLatent(ts) == Max({0} \cup {ts[i][2] : i \in {j \in 1..Len(ts) : IsLatent(ts[j])}})

-----------------------------------------------------------------------------
(* Values of the variables a specification does not use.                   *)

IdlePlay == game = new(<<>>) /\ board0 = <<>> /\ nticks = 0 /\ panic = ""
IdleSolve == pc = "idle" /\ arg = None /\ stack = <<>> /\ seen = {} /\ ret = None
IdleEnc == actions = <<>> /\ pos = 0 /\ location = 0 /\ start = 0 /\ ntiles = 0
           /\ printed = <<>>
IdleMain == input = <<>> /\ tiles = <<>>
IdleFold == results = <<>>

-----------------------------------------------------------------------------
(* The tick specification: step applied over and over to a fresh board.    *)

TickCap == MaxCountdown + Threshold + 3

InitTick ==
    /\ board0 \in Boards(PlayLens)
    /\ game = new(board0)
    /\ nticks = 0
    /\ panic = ""
    /\ IdleSolve /\ IdleEnc /\ IdleMain /\ IdleFold

Step ==
    /\ nticks < TickCap
    /\ game' = step(game)
    /\ nticks' = nticks + 1
    /\ UNCHANGED <<board0, panic, solveVars, encVars, mainVars, foldVars>>

NextTick == Step

SpecTick == InitTick /\ [][NextTick]_vars

-----------------------------------------------------------------------------
(* The play specification: a fresh board, the placement of the cursor as   *)
(* solve does it, then any actions applied with execute.                   *)

InitPlay ==
    /\ board0 \in Boards(PlayLens)
    /\ game = new(board0)
    /\ nticks = 0
    /\ panic = ""
    /\ IdleSolve /\ IdleEnc /\ IdleMain /\ IdleFold

\* the body of solve's loop over the start indices, up to the recursive call
place(s, i) ==
    step([s EXCEPT !.location = Some(i), !.start_location = Some(i)])

Place(i) ==
    /\ panic = ""
    /\ is_none(game.location)
    /\ game.action_queue = <<>>
    /\ game' = place(game, i)
    /\ UNCHANGED <<board0, nticks, panic, solveVars, encVars, mainVars, foldVars>>

Execute(action) ==
    /\ panic = ""
    /\ Len(game.action_queue) < MaxHistory
    /\ IF executePanic(game, action) = ""
       THEN game' = execute(game, action) /\ UNCHANGED panic
       ELSE panic' = executePanic(game, action) /\ UNCHANGED game
    /\ UNCHANGED <<board0, nticks, solveVars, encVars, mainVars, foldVars>>

NextPlay ==
    \/ \E i \in 0..(Len(game.tiles) - 1) : Place(i)
    \/ \E action \in Action : Execute(action)

SpecPlay == InitPlay /\ [][NextPlay]_vars

-----------------------------------------------------------------------------
(* solve, as the machine that runs it: one frame per active call.  A frame *)
(* holds the call's state, the index i of the next iteration of its loop   *)
(* and its best_state.                                                     *)

\* a key that leaves the reward out
SeenStateNoReward(s) == [tiles |-> s.tiles, location |-> s.location, reward |-> 0]

\* the key of a state in the set
SeenState(s) == [tiles |-> s.tiles, location |-> s.location, reward |-> s.reward]

\* the array the loop over the actions walks
ActionOrder == <<Advance, CounterClockwise, Clockwise, Collect>>

last(q) == IF q = <<>> THEN None ELSE Some(q[Len(q)])

\* a fold that looks at the reward alone
foldNoTieBreak(best_state, result) ==
    IF is_none(best_state) THEN Some(result)
    ELSE IF result.reward > unwrap(best_state).reward
         THEN Some(result)
         ELSE best_state

\* a fold that keeps the first result it is given
foldKeepsFirst(best_state, result) ==
    IF is_none(best_state) THEN Some(result) ELSE best_state

\* the match on best_state that folds one Some(result) into it
fold(best_state, result) ==
    IF is_none(best_state) THEN Some(result)
    ELSE IF \/ result.reward > unwrap(best_state).reward
            \/ /\ result.reward = unwrap(best_state).reward
               /\ Len(result.action_queue) < Len(unwrap(best_state).action_queue)
         THEN Some(result)
         ELSE best_state

\* a loop that never skips
skipsCollectNever(s, action) == FALSE

\* "don't collect twice in a row"
skipsCollect(s, action) == last(s.action_queue) = Some(Collect) /\ action = Collect

\* a lookup made after the insert
seenContainsAfterInsert(s, set) == SeenState(s) \in (set \cup {SeenState(s)})

\* whether the call's state is already in the set
seenContains(s, set) == SeenState(s) \in set

top == stack[Len(stack)]
setTop(f) == [stack EXCEPT ![Len(stack)] = f]

InitSolve ==
    /\ board0 \in Boards(SolveLens)
    /\ game = new(board0)
    /\ nticks = 0
    /\ panic = ""
    /\ pc = "call"
    /\ arg = Some(game)
    /\ stack = <<>>
    /\ seen = {}
    /\ ret = None
    /\ IdleEnc /\ IdleMain /\ IdleFold

\* the entry of solve: the terminal check, the lookup in seen, the insert
SolveCall ==
    /\ pc = "call"
    /\ LET state == unwrap(arg)
       IN  IF all_dead(state.tiles)
           THEN /\ ret' = Some(state)
                /\ pc' = "return"
                /\ UNCHANGED <<stack, seen>>
           ELSE IF seenContains(state, seen)
           THEN /\ ret' = None
                /\ pc' = "return"
                /\ UNCHANGED <<stack, seen>>
           ELSE /\ seen' = seen \cup {SeenState(state)}
                /\ stack' = Append(stack, [state |-> state, i |-> 0, best_state |-> None])
                /\ pc' = "loop"
                /\ UNCHANGED ret
    /\ arg' = None
    /\ UNCHANGED <<playVars, encVars, mainVars, foldVars>>

\* one iteration of the loop over the start indices, up to its call of solve
SolvePlace ==
    /\ pc = "loop"
    /\ is_none(top.state.location)
    /\ top.i < Len(top.state.tiles)
    /\ arg' = Some(place(top.state, top.i))
    /\ stack' = setTop([top EXCEPT !.i = top.i + 1])
    /\ pc' = "call"
    /\ UNCHANGED <<seen, ret, playVars, encVars, mainVars, foldVars>>

\* a loop over the actions that never moves on to the next action
SolveActRetries ==
    /\ pc = "loop"
    /\ is_some(top.state.location)
    /\ top.i < Len(ActionOrder)
    /\ stack' = stack
    /\ IF skipsCollect(top.state, ActionOrder[top.i + 1])
       THEN UNCHANGED <<arg, pc>>
       ELSE /\ arg' = Some(execute(top.state, ActionOrder[top.i + 1]))
            /\ pc' = "call"
    /\ UNCHANGED <<seen, ret, playVars, encVars, mainVars, foldVars>>

\* one iteration of the loop over the actions, up to its call of solve
SolveAct ==
    /\ pc = "loop"
    /\ is_some(top.state.location)
    /\ top.i < Len(ActionOrder)
    /\ stack' = setTop([top EXCEPT !.i = top.i + 1])
    /\ IF skipsCollect(top.state, ActionOrder[top.i + 1])
       THEN UNCHANGED <<arg, pc>>
       ELSE /\ arg' = Some(execute(top.state, ActionOrder[top.i + 1]))
            /\ pc' = "call"
    /\ UNCHANGED <<seen, ret, playVars, encVars, mainVars, foldVars>>

\* the rest of the iteration: the result of the call is folded into best_state
SolveFold ==
    /\ pc = "return"
    /\ stack # <<>>
    /\ stack' = setTop([top EXCEPT !.best_state =
                   IF is_some(ret) THEN fold(top.best_state, unwrap(ret))
                   ELSE top.best_state])
    /\ ret' = None
    /\ pc' = "loop"
    /\ UNCHANGED <<arg, seen, playVars, encVars, mainVars, foldVars>>

\* the loop is over: the call returns its best_state
SolveReturn ==
    /\ pc = "loop"
    /\ top.i = (IF is_none(top.state.location) THEN Len(top.state.tiles)
                ELSE Len(ActionOrder))
    /\ ret' = top.best_state
    /\ stack' = SubSeq(stack, 1, Len(stack) - 1)
    /\ pc' = "return"
    /\ UNCHANGED <<arg, seen, playVars, encVars, mainVars, foldVars>>

Solve == SolveCall \/ SolvePlace \/ SolveAct \/ SolveFold \/ SolveReturn

-----------------------------------------------------------------------------
(* main after the call of solve: the two unwraps and the printed lines.    *)

UnwrapNone == "called Option::unwrap() on a None value"

\* let best_state = solve(..).unwrap(); println!("Number of states: ..")
MainUnwrap ==
    /\ pc = "return"
    /\ stack = <<>>
    /\ IF is_none(ret)
       THEN /\ panic' = UnwrapNone
            /\ pc' = "panicked"
            /\ UNCHANGED printed
       ELSE /\ printed' = <<<<"Number of states:", Cardinality(seen)>>, <<"">>>>
            /\ pc' = "solved"
            /\ UNCHANGED panic
    /\ UNCHANGED <<game, board0, nticks, arg, stack, seen, ret,
                   actions, pos, location, start, ntiles, mainVars, foldVars>>

\* println!("Tap on {} to start", ..unwrap()) and the call of accumulate
MainTapToStart ==
    /\ pc = "solved"
    /\ LET best_state == unwrap(ret)
       IN  IF is_none(best_state.start_location)
           THEN /\ panic' = UnwrapNone
                /\ pc' = "panicked"
                /\ UNCHANGED encVars
           ELSE /\ printed' = Append(printed,
                                 <<"Tap on", unwrap(best_state.start_location), "to start">>)
                /\ actions' = best_state.action_queue
                /\ start' = unwrap(best_state.start_location)
                /\ location' = unwrap(best_state.start_location)
                /\ pos' = 0
                /\ ntiles' = Len(best_state.tiles)
                /\ pc' = "accumulate"
                /\ UNCHANGED panic
    /\ UNCHANGED <<game, board0, nticks, arg, stack, seen, ret, mainVars, foldVars>>

-----------------------------------------------------------------------------
(* accumulate: one action per arm of the match, each a whole iteration of  *)
(* the outer while loop.  The iterator has yielded pos actions; peek looks *)
(* at the next one.                                                        *)

\* the 3 of "n <= 3" in the two rotation arms
RunCap == 3
\* the 6 of rem_euclid(6) in the two rotation arms
EncoderModulus == 6

peek(acts, p) == IF p < Len(acts) THEN Some(acts[p + 1]) ELSE None

\* isize::rem_euclid
rem_euclid(x, m) == ((x % m) + m) % m

\* the inner while of the Advance arm: n when the iterator has yielded p actions
RECURSIVE advanceRun(_, _, _)
advanceRun(acts, p, n) ==
    IF peek(acts, p) = Some(Advance) THEN advanceRun(acts, p + 1, n + 1) ELSE n

\* the inner while of a rotation arm
RECURSIVE rotationRun(_, _, _, _)
rotationRun(acts, p, a, n) ==
    IF peek(acts, p) = Some(a) /\ n <= RunCap
    THEN rotationRun(acts, p + 1, a, n + 1)
    ELSE n

\* location after "location -= n" / "location += n" and the rem_euclid
turned(loc, a, n) ==
    rem_euclid(IF a = CounterClockwise THEN loc - n ELSE loc + n, EncoderModulus)

AccumulateAdvance ==
    /\ pc = "accumulate"
    /\ peek(actions, pos) = Some(Advance)
    /\ LET n == advanceRun(actions, pos + 1, 1)
       IN  /\ pos' = pos + n
           /\ printed' = Append(printed, <<"Tap the active region", n, "times">>)
    /\ UNCHANGED <<actions, location, start, ntiles, playVars, solveVars, mainVars, foldVars>>

\* a rotation arm that prints the swipe and leaves the Collect in the iterator
AccumulateRotationKeepsCollect(a) ==
    /\ pc = "accumulate"
    /\ peek(actions, pos) = Some(a)
    /\ LET n == rotationRun(actions, pos + 1, a, 1)
           l == turned(location, a, n)
       IN  /\ location' = l
           /\ pos' = pos + n
           /\ IF peek(actions, pos + n) = Some(Collect)
              THEN printed' = Append(printed, <<"Swipe on", l>>)
              ELSE printed' = Append(printed, <<"Tap on", l>>)
    /\ UNCHANGED <<actions, start, ntiles, playVars, solveVars, mainVars, foldVars>>

\* the CounterClockwise arm and the Clockwise arm
AccumulateRotation(a) ==
    /\ pc = "accumulate"
    /\ peek(actions, pos) = Some(a)
    /\ LET n == rotationRun(actions, pos + 1, a, 1)
           l == turned(location, a, n)
       IN  /\ location' = l
           /\ IF peek(actions, pos + n) = Some(Collect)
              THEN /\ pos' = pos + n + 1
                   /\ printed' = Append(printed, <<"Swipe on", l>>)
              ELSE /\ pos' = pos + n
                   /\ printed' = Append(printed, <<"Tap on", l>>)
    /\ UNCHANGED <<actions, start, ntiles, playVars, solveVars, mainVars, foldVars>>

AccumulateCollect ==
    /\ pc = "accumulate"
    /\ peek(actions, pos) = Some(Collect)
    /\ pos' = pos + 1
    /\ printed' = Append(printed, <<"Swipe on active region">>)
    /\ UNCHANGED <<actions, location, start, ntiles, playVars, solveVars, mainVars, foldVars>>

\* the iterator is exhausted: accumulate returns
AccumulateReturn ==
    /\ pc = "accumulate"
    /\ peek(actions, pos) = None
    /\ pc' = "done"
    /\ UNCHANGED <<arg, stack, seen, ret, playVars, encVars, mainVars, foldVars>>

Accumulate ==
    \/ AccumulateAdvance /\ UNCHANGED pc
    \/ AccumulateRotation(CounterClockwise) /\ UNCHANGED pc
    \/ AccumulateRotation(Clockwise) /\ UNCHANGED pc
    \/ AccumulateCollect /\ UNCHANGED pc
    \/ AccumulateReturn

-----------------------------------------------------------------------------
(* The search specification: main from the constructed GameState on.       *)

NextSolve == Solve \/ MainUnwrap \/ MainTapToStart \/ Accumulate

SpecSolve == InitSolve /\ [][NextSolve]_vars

\* main runs on: nothing but the program itself takes its steps
SpecSolveFair == InitSolve /\ [][NextSolve]_vars /\ WF_vars(NextSolve)

-----------------------------------------------------------------------------
(* The encoder specification: accumulate on any history of a board of      *)
(* ntiles tiles, from any start location of that board.                    *)

InitEnc ==
    /\ ntiles \in EncLens
    /\ start \in 0..(ntiles - 1)
    /\ actions \in SeqsUpTo(Action, MaxActions)
    /\ location = start
    /\ pos = 0
    /\ printed = <<>>
    /\ pc = "accumulate"
    /\ arg = None /\ stack = <<>> /\ seen = {} /\ ret = None
    /\ IdlePlay /\ IdleMain /\ IdleFold

NextEnc == Accumulate

SpecEnc == InitEnc /\ [][NextEnc]_vars

\* the state execute reaches from cursor at `from` on a board of n tiles
RECURSIVE replay(_, _)
replay(s, acts) ==
    IF acts = <<>> THEN s ELSE replay(execute(s, Head(acts)), Tail(acts))

replayed(n, from, acts) ==
    replay([new([i \in 1..n |-> Dead]) EXCEPT !.location = Some(from),
                                              !.start_location = Some(from)], acts)

-----------------------------------------------------------------------------
(* The fold specification: one node of solve whose calls return any        *)
(* results; the node folds them in the order of its loop and returns.      *)

\* rewards and history lengths of the results a call may return
ResultRewards == {9, 16}
ResultLens == {1, 2}

\* a terminal state with the given reward, history length and start index
terminalState(r, n, i) ==
    [new(<<Dead, Dead>>) EXCEPT !.reward = r,
                                !.location = Some(i),
                                !.start_location = Some(i),
                                !.action_queue = [k \in 1..n |-> Advance],
                                !.location_queue = [k \in 1..n |-> Some(i)]]

\* what a call of solve may return
ChildResults ==
    {None} \cup {Some(terminalState(r, n, i)) :
                     r \in ResultRewards, n \in ResultLens, i \in {0, 1}}

\* the node is a root of as many start indices as there are results
InitFold ==
    /\ results \in UNION {SeqsOfLen(ChildResults, n) : n \in 1..MaxResults}
    /\ pc = "loop"
    /\ arg = None
    /\ stack = <<[state |-> new([k \in 1..Len(results) |-> Latent(0)]),
                  i |-> 0, best_state |-> None]>>
    /\ seen = {}
    /\ ret = None
    /\ IdlePlay /\ IdleEnc /\ IdleMain

\* the call of one iteration returns: "if let Some(result) = solve(..)"
ChildReturns ==
    /\ pc = "loop"
    /\ top.i < Len(results)
    /\ ret' = results[top.i + 1]
    /\ stack' = setTop([top EXCEPT !.i = top.i + 1])
    /\ pc' = "return"
    /\ UNCHANGED <<arg, seen, playVars, encVars, mainVars, foldVars>>

NextFold == ChildReturns \/ SolveFold \/ SolveReturn

SpecFold == InitFold /\ [][NextFold]_vars

-----------------------------------------------------------------------------
(* The input specification: the line read_line returns, turned into tiles.  *)

\* the characters a player types for a region
RegionChars == {"0", "1", "9", "-", "x"}
\* how the line ends: end of input, a newline, a carriage return and newline
Terminators == {<<>>, <<"\n">>, <<"\r", "\n">>}

DigitValue == ("0" :> 0) @@ ("1" :> 1) @@ ("2" :> 2) @@ ("3" :> 3) @@ ("4" :> 4)
              @@ ("5" :> 5) @@ ("6" :> 6) @@ ("7" :> 7) @@ ("8" :> 8) @@ ("9" :> 9)

\* char::to_digit(10)
to_digit(c) == IF c \in DOMAIN DigitValue THEN Some(DigitValue[c]) ELSE None

\* the match in the loop over input.chars()
parseTile(ts, c) ==
    IF is_some(to_digit(c)) THEN Append(ts, Latent(unwrap(to_digit(c))))
    ELSE Append(ts, Dead)

InitMain ==
    /\ \E body \in SeqsUpTo(RegionChars, MaxLine) : \E t \in Terminators :
           input = body \o t
    /\ tiles = <<>>
    /\ pos = 0
    /\ pc = "parse"
    /\ arg = None /\ stack = <<>> /\ seen = {} /\ ret = None
    /\ actions = <<>> /\ location = 0 /\ start = 0 /\ ntiles = 0 /\ printed = <<>>
    /\ IdlePlay /\ IdleFold

\* one iteration of "for c in input.chars()"; pos characters are consumed
ParseChar ==
    /\ pc = "parse"
    /\ pos < Len(input)
    /\ tiles' = parseTile(tiles, input[pos + 1])
    /\ pos' = pos + 1
    /\ UNCHANGED <<input, playVars, solveVars, actions, location, start, ntiles, printed,
                   foldVars>>

\* let game = GameState::new(tiles)
ParseDone ==
    /\ pc = "parse"
    /\ pos = Len(input)
    /\ game' = new(tiles)
    /\ board0' = tiles
    /\ pc' = "parsed"
    /\ UNCHANGED <<nticks, panic, arg, stack, seen, ret, encVars, mainVars, foldVars>>

NextMain == ParseChar \/ ParseDone

SpecMain == InitMain /\ [][NextMain]_vars

-----------------------------------------------------------------------------
(* The search without the seen set, as the reference the search is held    *)
(* against: every start index, then every action sequence with no two      *)
(* consecutive Collects, level by level.  Level k holds the states reached *)
(* by k actions.  Two states that differ only in the entries of their      *)
(* queues before the last one have the same children, so a level keeps     *)
(* one of them.                                                            *)

\* the states solve calls itself on from s, with nothing pruned
children(s) ==
    IF is_none(s.location)
    THEN {place(s, i) : i \in 0..(Len(s.tiles) - 1)}
    ELSE {execute(s, a) : a \in {b \in Action : ~skipsCollect(s, b)}}

\* s with its queues cut down to the last action
norm(s) ==
    [s EXCEPT !.action_queue = last(s.action_queue),
              !.location_queue = <<>>,
              !.start_location = None]

\* Some([reward, actions]) of the best terminal state of this level and the
\* later ones, or best when there is none
RECURSIVE exhaustive(_, _, _)
exhaustive(level, k, best) ==
    IF level = {} THEN best
    ELSE LET terminal == {s \in level : all_dead(s.tiles)}
             r == Max({s.reward : s \in terminal})
             best1 == IF terminal # {} /\ (is_none(best) \/ r > unwrap(best).reward)
                      THEN Some([reward |-> r, actions |-> k])
                      ELSE best
         IN  exhaustive(UNION {{norm(c) : c \in children(s)} : s \in level \ terminal},
                        k + 1, best1)

exhaustiveBest(ts) ==
    IF all_dead(ts) THEN Some([reward |-> 0, actions |-> 0])
    ELSE exhaustive({norm(c) : c \in children(new(ts))}, 0, None)

\* the top-level call of solve has returned
Returned == pc = "return" /\ stack = <<>>

NoTwoCollects(q) == \A k \in 1..(Len(q) - 1) : ~(q[k] = Collect /\ q[k + 1] = Collect)

-----------------------------------------------------------------------------
(* The claims.                                                             *)

\* C1: on a board of 2 or 3 tiles, the reward of the state solve returns from
\* the fresh state equals the largest reward of a terminal state of the
\* search without the seen set.
C1_MemoRewardMatchesExhaustive ==
    (Returned /\ Len(board0) \in {2, 3}) =>
        /\ is_some(ret)
        /\ unwrap(ret).reward = unwrap(exhaustiveBest(board0)).reward

\* C1 witness: a board of three tiles is solved for 36 + 36, with more than
\* a hundred states in the set
C1_Witness ==
    /\ Returned
    /\ board0 = <<Latent(0), Dead, Latent(1)>>
    /\ is_some(ret) /\ unwrap(ret).reward = 72
    /\ Cardinality(seen) > 100

C7_TopLevelReturnsTerminal ==
    (Returned /\ Len(board0) >= 1) =>
        /\ is_some(ret)
        /\ all_dead(unwrap(ret).tiles)
        /\ Len(unwrap(ret).tiles) = Len(board0)

\* C7 witness: the search of a board with live tiles has returned a state
C7_Witness ==
    /\ Returned
    /\ ~all_dead(board0)
    /\ is_some(ret)
    /\ all_dead(unwrap(ret).tiles)

\* C9: no state solve is called on, keeps as a best_state or returns has two
\* adjacent Collects in its action history.
C9_NoTwoCollectsInARow ==
    /\ is_some(ret) => NoTwoCollects(unwrap(ret).action_queue)
    /\ is_some(arg) => NoTwoCollects(unwrap(arg).action_queue)
    /\ \A k \in 1..Len(stack) :
           is_some(stack[k].best_state) =>
               NoTwoCollects(unwrap(stack[k].best_state).action_queue)

\* C9 witness: the top-level call returned a history with two Collects
C9_Witness ==
    /\ Returned
    /\ is_some(ret)
    /\ Cardinality({k \in 1..Len(unwrap(ret).action_queue) :
                       unwrap(ret).action_queue[k] = Collect}) >= 2

\* C6: on every board of at least one tile, an all-Dead one included, the
\* state the top-level call returns has start_location set to an index of
\* the board, and main prints its line without a panic.
C6_StartLocationSet ==
    Len(board0) >= 1 =>
        /\ (Returned /\ is_some(ret)) =>
               /\ is_some(unwrap(ret).start_location)
               /\ unwrap(unwrap(ret).start_location) \in 0..(Len(board0) - 1)
        /\ panic = ""

\* C8: after (largest countdown of the board's Latent tiles) + threshold + 1
\* ticks every tile is Dead, and a tick of an all-Dead board leaves it so.
C8_AllDeadWithinBound ==
    /\ nticks >= MaxLatent(board0) + Threshold + 1 => all_dead(game.tiles)
    /\ all_dead(game.tiles) => all_dead(step(game).tiles)

\* C8 witness: a board with a Latent(1) tile is all Dead at exactly the bound
C8_Witness ==
    /\ \E i \in 1..Len(board0) : board0[i] = Latent(1)
    /\ nticks = MaxLatent(board0) + Threshold + 1
    /\ all_dead(game.tiles)

\* C10: no action applied with execute lowers the reward.
C10_RewardNonDecreasing == [][game'.reward >= game.reward]_vars

\* C10 witness: two Collects of Active tiles have raised the reward
C10_Witness ==
    /\ game.reward = 41
    /\ last(game.action_queue) = Some(Collect)

\* C3: when accumulate returns, its running cursor is the cursor execute
\* reaches by replaying the same history from the same start on the board.
C3_EncoderCursorMatchesReplay ==
    pc = "done" => location = unwrap(replayed(ntiles, start, actions).location)

\* C4: no "Tap on <position>" or "Swipe on <position>" gesture consumes more
\* than 3 rotation actions.
C4_GestureConsumesAtMostCap ==
    [][(/\ pc = "accumulate"
        /\ Len(printed') = Len(printed) + 1
        /\ Len(printed'[Len(printed')]) = 2
        /\ printed'[Len(printed')][1] \in {"Tap on", "Swipe on"})
       => (pos' - pos) - (IF printed'[Len(printed')][1] = "Swipe on" THEN 1 ELSE 0)
              <= RunCap]_vars

\* C5: a line of k region characters and its terminator gives a board of
\* exactly k tiles, tile i Latent(d) for the digit d and Dead otherwise.
C5_LineOfKRegionsGivesKTiles ==
    (pc = "parsed" /\ input # <<>> /\ input[Len(input)] = "\n") =>
        LET k == Cardinality({i \in 1..Len(input) : input[i] \notin {"\n", "\r"}})
        IN  /\ Len(tiles) = k
            /\ \A i \in 1..k :
                   tiles[i] = IF input[i] \in DOMAIN DigitValue
                              THEN Latent(DigitValue[input[i]])
                              ELSE Dead


\* the states the search holds that lie after the start placement
AfterPlacement ==
    {stack[k].state : k \in 2..Len(stack)}
    \cup {unwrap(stack[k].best_state) :
              k \in {j \in 1..Len(stack) : is_some(stack[j].best_state)}}
    \cup (IF is_some(arg) /\ stack # <<>> THEN {unwrap(arg)} ELSE {})
    \cup (IF is_some(ret) /\ ~all_dead(board0) THEN {unwrap(ret)} ELSE {})

\* C11: in every state the search reaches after the start placement the
\* cursor is set and is an index of the board, and the board has the length
\* it started with.
C11_CursorSetAndInRange ==
    /\ \A s \in AfterPlacement :
           /\ is_some(s.location)
           /\ unwrap(s.location) \in 0..(Len(board0) - 1)
           /\ is_some(s.start_location)
           /\ Len(s.tiles) = Len(board0)
    /\ \A k \in 1..Len(stack) : Len(stack[k].state.tiles) = Len(board0)

\* C11 witness: on a board of three tiles a Clockwise from the last index
\* has brought the cursor of the innermost call back to 0
C11_Witness ==
    /\ Len(board0) = 3
    /\ Len(stack) >= 3
    /\ top.state.location = Some(0)
    /\ stack[Len(stack) - 1].state.location = Some(2)
    /\ last(top.state.action_queue) = Some(Clockwise)


\* the step from game to game' is execute(a): the action queue grew by a
Applied(a) ==
    /\ Len(game'.action_queue) = Len(game.action_queue) + 1
    /\ game'.action_queue[Len(game'.action_queue)] = a

\* the step from game to game' is the start placement
Placed == is_none(game.location) /\ is_some(game'.location)

\* the tick of one tile, case by case
tickRule(t) ==
    IF t = Latent(0) THEN Active(1)
    ELSE IF IsLatent(t) /\ t[2] > 0 THEN Latent(t[2] - 1)
    ELSE IF IsActive(t) /\ t[2] < Threshold THEN Active(t[2] + 1)
    ELSE IF IsActive(t) /\ t[2] = Threshold THEN Dead
    ELSE IF t = Dead THEN Dead
    ELSE <<"no rule">>

\* game' holds the tiles of game, each ticked once
TickedOnce ==
    /\ Len(game'.tiles) = Len(game.tiles)
    /\ \A i \in 1..Len(game.tiles) : game'.tiles[i] = tickRule(game.tiles[i])

\* C12: a tick maps every tile by the rule Latent(0) -> Active(1),
\* Latent(n) -> Latent(n-1), Active(v < threshold) -> Active(v+1),
\* Active(threshold) -> Dead, Dead -> Dead, and changes neither cursor nor
\* reward (Advance is the tick alone; the placement ticks after it set the
\* cursor).
C12_TickRule ==
    [][/\ Applied(Advance) =>
              /\ TickedOnce
              /\ game'.location = game.location
              /\ game'.reward = game.reward
       /\ Placed => (TickedOnce /\ game'.reward = game.reward)]_vars

\* C12 witness: after the placement and six Advances a Latent(1) tile is
\* Active(6) and a Latent(0) tile has died, with the cursor where it was put
C12_Witness ==
    /\ board0 = <<Latent(1), Latent(0)>>
    /\ game.action_queue = <<Advance, Advance, Advance, Advance, Advance, Advance>>
    /\ game.tiles = <<Active(6), Dead>>
    /\ game.location = Some(1)

\* C13: Collect adds v*v to the reward when the tile at the cursor is
\* Active(v) and nothing when it is Latent or Dead, and leaves that tile Dead.
C13_CollectScoresSquare ==
    [][(Applied(Collect) /\ is_some(game.location)) =>
          LET t == game.tiles[unwrap(game.location) + 1]
          IN  /\ game'.reward = game.reward + (IF IsActive(t) THEN t[2] * t[2] ELSE 0)
              /\ game'.tiles[unwrap(game.location) + 1] = Dead]_vars

\* C13 witness: an Active(4) tile was collected for 16
C13_Witness ==
    /\ game.action_queue = <<Advance, Advance, Advance, Collect>>
    /\ game.reward = 16
    /\ game.tiles[unwrap(game.location) + 1] = Dead

\* C14: Collect leaves the cursor and every tile but the one at the cursor
\* unchanged; Advance, CounterClockwise and Clockwise tick every tile once.
C14_OnlyCollectSkipsTick ==
    [][/\ (Applied(Collect) /\ is_some(game.location)) =>
              /\ game'.location = game.location
              /\ Len(game'.tiles) = Len(game.tiles)
              /\ \A i \in 1..Len(game.tiles) :
                     i # unwrap(game.location) + 1 => game'.tiles[i] = game.tiles[i]
       /\ (Applied(Advance) \/ Applied(CounterClockwise) \/ Applied(Clockwise))
              => TickedOnce]_vars

\* C14 witness: after a Collect at index 0 the other tile is still Active(3)
C14_Witness ==
    /\ game.action_queue = <<Advance, Advance, Collect>>
    /\ game.location = Some(0)
    /\ game.tiles = <<Dead, Active(3)>>
    /\ game.reward = 9

\* the cursor before the k-th action of the history
cursorBefore(s, k) == IF k = 1 THEN s.start_location ELSE s.location_queue[k - 1]

\* C15: by the cursor history, CounterClockwise takes the cursor c to
\* (c + N - 1) mod N, Clockwise takes it to (c + 1) mod N and Advance
\* leaves it where it is.
C15_RotationArithmetic ==
    is_some(game.start_location) =>
        /\ Len(game.location_queue) = Len(game.action_queue)
        /\ game.location = (IF game.location_queue = <<>> THEN game.start_location
                            ELSE game.location_queue[Len(game.location_queue)])
        /\ \A k \in 1..Len(game.action_queue) :
               LET c == unwrap(cursorBefore(game, k))
                   n == Len(game.tiles)
                   a == game.action_queue[k]
               IN  /\ a = CounterClockwise =>
                          game.location_queue[k] = Some((c + n - 1) % n)
                   /\ a = Clockwise => game.location_queue[k] = Some((c + 1) % n)
                   /\ a = Advance => game.location_queue[k] = Some(c)

\* C15 witness: on three tiles CounterClockwise took 0 to 2 and Clockwise
\* took 2 back to 0
C15_Witness ==
    /\ Len(game.tiles) = 3
    /\ game.start_location = Some(0)
    /\ game.action_queue = <<CounterClockwise, Clockwise>>
    /\ game.location_queue = <<Some(2), Some(0)>>

\* C20: from a parsed board every Active tile has a strength in
\* 1..threshold, and the reward is at most 36 for each tile of the board.
C20_StrengthAndRewardBounded ==
    /\ \A i \in 1..Len(game.tiles) :
           IsActive(game.tiles[i]) =>
               (1 <= game.tiles[i][2] /\ game.tiles[i][2] <= Threshold)
    /\ game.reward <= Threshold * Threshold * Len(game.tiles)
    /\ game.reward <= Threshold * Threshold
                          * Cardinality({k \in 1..Len(game.action_queue) :
                                             game.action_queue[k] = Collect})

\* C20 witness: the one tile of a board was collected at strength 6, and
\* the reward is 36 * N
C20_Witness ==
    /\ Len(game.tiles) = 1
    /\ game.reward = 36
    /\ game.tiles = <<Dead>>


IsRotation(a) == a \in {CounterClockwise, Clockwise}

\* the Collects among the first p actions, all / those right after a rotation
CollectsIn(acts, p) == {k \in 1..p : acts[k] = Collect}
MergedCollectsIn(acts, p) ==
    {k \in CollectsIn(acts, p) : k > 1 /\ IsRotation(acts[k - 1])}

\* the printed lines of one form
LinesOf(form) == {k \in 1..Len(printed) : printed[k][1] = form}

\* the actions consumed by the step from pos to pos'
Consumed == SubSeq(actions, pos + 1, pos')

\* the line printed by the step
Line == printed'[Len(printed')]

\* every state of the encoder: the lines printed account for the actions
\* consumed so far, swipe for Collect
EncoderAccounts ==
    /\ pos <= Len(actions)
    /\ Len(printed) <= pos
    /\ pc = "done" => pos = Len(actions)
    /\ Cardinality(LinesOf("Swipe on")) + Cardinality(LinesOf("Swipe on active region"))
           = Cardinality(CollectsIn(actions, pos))
    /\ Cardinality(LinesOf("Swipe on")) = Cardinality(MergedCollectsIn(actions, pos))

\* every step of the encoder: one line, for the one or more actions it consumed
EncoderStep ==
    printed' # printed =>
        /\ Len(printed') = Len(printed) + 1
        /\ SubSeq(printed', 1, Len(printed)) = printed
        /\ pos' > pos
        /\ LET n == Len(Consumed)
           IN  CASE Line[1] = "Tap the active region" ->
                        /\ Line[2] = n
                        /\ \A k \in 1..n : Consumed[k] = Advance
                 [] Line[1] = "Tap on" ->
                        /\ IsRotation(Consumed[1])
                        /\ \A k \in 1..n : Consumed[k] = Consumed[1]
                 [] Line[1] = "Swipe on" ->
                        /\ n >= 2
                        /\ IsRotation(Consumed[1])
                        /\ \A k \in 1..(n - 1) : Consumed[k] = Consumed[1]
                        /\ Consumed[n] = Collect
                 [] Line[1] = "Swipe on active region" ->
                        /\ n = 1
                        /\ Consumed[1] = Collect
                        /\ pos > 0 => ~IsRotation(actions[pos])
                 [] OTHER -> FALSE

\* C18: the encoder consumes each action of the history by exactly one
\* printed instruction, and it prints as many swipes as the history has
\* Collects: a Collect right after a rotation gesture is merged into the
\* gesture's "Swipe on <position>", every other Collect gets its own
\* "Swipe on active region".
C18_EncoderAccountsForEveryAction ==
    [](EncoderAccounts) /\ [][EncoderStep]_vars

\* C18 witness: of two Collects after a Clockwise the first was merged into
\* the swipe of the rotation and the second printed on its own
C18_Witness ==
    /\ pc = "done"
    /\ actions = <<Clockwise, Collect, Collect>>
    /\ Len(printed) = 2
    /\ printed[1][1] = "Swipe on"
    /\ printed[2] = <<"Swipe on active region">>


\* the returned state r is what its own plan gives on the initial board
PlanReplays(r) ==
    LET final == replay(place(new(board0), unwrap(r.start_location)), r.action_queue)
    IN  /\ all_dead(final.tiles)
        /\ final.reward = r.reward
        /\ final.tiles = r.tiles
        /\ final.location = r.location

\* the plan is valid whenever the board has a tile that is not Dead
PlanReplaysOnLiveBoard ==
    (Returned /\ is_some(ret) /\ ~all_dead(board0)) =>
        (is_some(unwrap(ret).start_location) /\ PlanReplays(unwrap(ret)))

\* C19: the state solve returns names a start location, and placing the
\* cursor there on the initial board, ticking once and executing the
\* returned action history in order gives an all-Dead board and the reward
\* the returned state reports.
C19_ReturnedPlanReplays ==
    (Len(board0) >= 1 /\ Returned /\ is_some(ret)) =>
        (is_some(unwrap(ret).start_location) /\ PlanReplays(unwrap(ret)))


\* the step is an expansion: solve gets past its two early returns
Expands == Len(stack') = Len(stack) + 1

\* C16: from the fresh state and an empty seen set solve returns, after
\* finitely many expansions: each expansion puts a key into seen that was not
\* there, and the keys of a board are finitely many.
C16_SolveTerminates ==
    /\ <>Returned
    /\ [][Expands => (/\ SeenState(unwrap(arg)) \notin seen
                      /\ seen' = seen \cup {SeenState(unwrap(arg))})]_vars

\* C16 witness: the top-level call has returned after more than 100
\* expansions
C16_Witness ==
    /\ Returned
    /\ board0 = <<Latent(1), Dead, Latent(0)>>
    /\ Cardinality(seen) > 100


\* result r replaces the running best b
Replaces(r, b) ==
    \/ r.reward > b.reward
    \/ r.reward = b.reward /\ Len(r.action_queue) < Len(b.action_queue)

\* the non-empty results among the first k
SomeResults(k) == {j \in 1..k : is_some(results[j])}

\* among the first k results: the earliest of those with the fewest actions
\* among those of the largest reward
Winner(k) ==
    LET S == SomeResults(k)
        R(j) == unwrap(results[j]).reward
        L(j) == Len(unwrap(results[j]).action_queue)
        byReward == {j \in S : \A m \in S : R(m) <= R(j)}
        byLength == {j \in byReward : \A m \in byReward : L(j) <= L(m)}
    IN  CHOOSE j \in byLength : \A m \in byLength : j <= m

Folded(k) == IF SomeResults(k) = {} THEN None ELSE results[Winner(k)]

\* the running best of the node after each result, and what the node returns
FoldKeepsWinner ==
    /\ (pc = "loop" /\ stack # <<>>) => top.best_state = Folded(top.i)
    /\ (pc = "return" /\ stack # <<>>) =>
           (ret = results[top.i] /\ top.best_state = Folded(top.i - 1))
    /\ Returned => ret = Folded(Len(results))

\* one fold: the running best is replaced exactly when Replaces says so
FoldStep ==
    (pc = "return" /\ stack # <<>> /\ pc' = "loop") =>
        LET b == top.best_state
            b2 == stack'[Len(stack')].best_state
        IN  IF is_none(ret) THEN b2 = b
            ELSE IF is_none(b) THEN b2 = ret
            ELSE IF Replaces(unwrap(ret), unwrap(b)) THEN b2 = ret
            ELSE b2 = b

\* C17: folding its children's results in order, a node replaces its running
\* best exactly when the new result has strictly greater reward, or equal
\* reward and strictly fewer actions; what it returns has the largest reward
\* among the non-empty results, the fewest actions among those, and is the
\* earliest of these.
C17_FoldKeepsBestFewestEarliest ==
    [](FoldKeepsWinner) /\ [][FoldStep]_vars

\* C17 witness: of three results of equal reward the node returned the
\* second: it has fewer actions than the first, and the third ties with it
C17_Witness ==
    /\ Returned
    /\ results = <<Some(terminalState(9, 2, 0)), Some(terminalState(9, 1, 0)),
                   Some(terminalState(9, 1, 1))>>
    /\ ret = results[2]

=============================================================================
